---- MODULE Spec2Model ----
(***************************************************************************)
(* A model of the Datetime crate: the strptime-style pattern lexer         *)
(* (lexer.rs), the interpreter that drives the tokens against the input    *)
(* (interpreter.rs), and the validating builder, Display and try_guess     *)
(* (datetime.rs).                                                          *)
(*                                                                         *)
(* A &str is a sequence of characters; a character is a one-character      *)
(* string, or the name of a non-ASCII code point ("U+00E9"), and LenUtf8   *)
(* gives its width in bytes.  Rust's str::len, split_at and range slices   *)
(* count bytes, and abort when a cut falls inside a character.             *)
(***************************************************************************)
EXTENDS Integers, Sequences, FiniteSets, TLC

(***************************************************************************)
(* Strings                                                                 *)
(***************************************************************************)

NonAscii2 == "U+00E9"

NonAscii3 == "U+20AC"

LenUtf8(c) == IF c = NonAscii2 THEN 2 ELSE IF c = NonAscii3 THEN 3 ELSE 1

RECURSIVE ByteLen(_)
ByteLen(s) == IF s = <<>> THEN 0 ELSE LenUtf8(Head(s)) + ByteLen(Tail(s))

Take(s, k) == SubSeq(s, 1, k)

Drop(s, k) == SubSeq(s, k + 1, Len(s))

\* The k for which the first k characters of s are exactly n bytes.
Boundaries(s, n) == {k \in 0..Len(s) : ByteLen(Take(s, k)) = n}

IsCharBoundary(s, n) == Boundaries(s, n) # {}

CharsIn(s, n) == CHOOSE k \in Boundaries(s, n) : TRUE

\* str::starts_with / str::strip_prefix
StartsWith(s, p) == Len(p) <= Len(s) /\ Take(s, Len(p)) = p

\* input.get(..n).unwrap_or(input)
GetPrefixOrAll(s, n) == IF IsCharBoundary(s, n) THEN Take(s, CharsIn(s, n)) ELSE s

DigitChars == <<"0", "1", "2", "3", "4", "5", "6", "7", "8", "9">>

IsDigit(c) == \E i \in 1..10 : DigitChars[i] = c

DigitVal(c) == (CHOOSE i \in 1..10 : DigitChars[i] = c) - 1

IsAsciiWhitespace(c) == c \in {" ", "\t", "\n", "\f", "\r"}

(***************************************************************************)
(* Results                                                                 *)
(***************************************************************************)

NoErr == [kind |-> "none"]

NoDatetime == [year |-> 0, month |-> 0, day |-> 0, hour |-> 0, minute |-> 0, second |-> 0]

Ok(d) == [tag |-> "Ok", dt |-> d, err |-> NoErr]

Err(e) == [tag |-> "Err", dt |-> NoDatetime, err |-> e]

Panic == [tag |-> "Panic", dt |-> NoDatetime, err |-> NoErr]

Pending == [tag |-> "Pending", dt |-> NoDatetime, err |-> NoErr]

SomeDt(d) == [tag |-> "Some", dt |-> d, err |-> NoErr]

NoneDt == [tag |-> "None", dt |-> NoDatetime, err |-> NoErr]

(***************************************************************************)
(* lexer.rs                                                                *)
(***************************************************************************)

Tok(k) == [kind |-> k, pattern |-> <<>>]

Literal(p) == [kind |-> "Literal", pattern |-> p]

DateTimeLexerNew(src) == [rest |-> src, byte |-> 0]

\* The Other arm taking one character for each Literal.
LiteralRunSingle(s) == IF s = <<>> \/ Head(s) = "%" THEN <<>> ELSE <<Head(s)>>

RECURSIVE UpToPercent(_)
UpToPercent(s) ==
    IF s = <<>> \/ Head(s) = "%" THEN <<>> ELSE <<Head(s)>> \o UpToPercent(Tail(s))

\* The Other arm with the first character left out of the pattern.
LiteralRunWithoutFirst(s) == IF s = <<>> THEN <<>> ELSE UpToPercent(Tail(s))

\* The longest prefix of s without a '%'.
RECURSIVE LiteralRun(_)
LiteralRun(s) ==
    IF s = <<>> \/ Head(s) = "%" THEN <<>> ELSE <<Head(s)>> \o LiteralRun(Tail(s))

\* match ident { ... } of the Percent arm: at = (start, length) of the span.
SpecifierItem(ident, start) ==
    CASE ident = "Y" -> [tag |-> "Ok", token |-> Tok("FullYear")]
      [] ident = "y" -> [tag |-> "Ok", token |-> Tok("HalfYear")]
      [] ident = "m" -> [tag |-> "Ok", token |-> Tok("FullMonth")]
      [] ident = "B" -> [tag |-> "Ok", token |-> Tok("WrittenMonth")]
      [] ident = "d" -> [tag |-> "Ok", token |-> Tok("Day")]
      [] ident = "H" -> [tag |-> "Ok", token |-> Tok("TwentyFourHourDay")]
      [] ident = "I" -> [tag |-> "Ok", token |-> Tok("TwelveHourDay")]
      [] ident = "M" -> [tag |-> "Ok", token |-> Tok("Minute")]
      [] ident = "S" -> [tag |-> "Ok", token |-> Tok("Second")]
      [] ident = "p" -> [tag |-> "Ok", token |-> Tok("AmOrPm")]
      [] OTHER ->
           IF IsAsciiWhitespace(ident)
           THEN [tag |-> "Err",
                 err |-> [kind |-> "InvalidWhitespace",
                          at |-> <<start, 1 + LenUtf8(ident)>>]]
           ELSE [tag |-> "Err",
                 err |-> [kind |-> "InvalidFormat",
                          at |-> <<start, 1 + LenUtf8(ident)>>]]

\* DateTimeLexer::next: the item and the lexer after the call.
LexerNext(lx) ==
    IF lx.rest = <<>>
    THEN [item |-> [tag |-> "None"], lexer |-> lx]
    ELSE LET next  == Head(lx.rest)
             byte1 == lx.byte + LenUtf8(next)
         IN IF next = "%"
            THEN LET rest1 == Tail(lx.rest)
                 IN IF rest1 = <<>>
                    THEN [item |-> [tag |-> "Err", err |-> [kind |-> "UnexpectedEOF"]],
                          lexer |-> [rest |-> rest1, byte |-> byte1]]
                    ELSE LET ident == Head(rest1)
                         IN IF ~IsCharBoundary(rest1, 1)
                            THEN [item |-> [tag |-> "Panic"],
                                  lexer |-> [rest |-> rest1, byte |-> byte1]]
                            ELSE [item |-> SpecifierItem(ident, byte1 - 1),
                                  lexer |-> [rest |-> Tail(rest1), byte |-> byte1]]
            ELSE LET pattern == LiteralRun(lx.rest)
                 IN [item |-> [tag |-> "Ok", token |-> Literal(pattern)],
                     lexer |-> [rest |-> Drop(lx.rest, Len(pattern)),
                                byte |-> byte1 + ByteLen(pattern)]]

(***************************************************************************)
(* datetime.rs: the builder, build(), Display                              *)
(***************************************************************************)

DefaultYear == 1900

DatetimeBuilderDefault ==
    [year |-> DefaultYear, month |-> 1, day |-> 1, hour |-> 0, minute |-> 0, second |-> 0]

\* A leap-year test without the century rule.
is_leap_year_every_fourth(year) == year % 4 = 0

is_leap_year(year) == (year % 4 = 0 /\ year % 100 # 0) \/ (year % 400 = 0)

\* 0 stands for None.
days_in_month(year, month) ==
    CASE month \in {1, 3, 5, 7, 8, 10, 12} -> 31
      [] month \in {4, 6, 9, 11} -> 30
      [] month = 2 -> IF is_leap_year(year) THEN 29 ELSE 28
      [] OTHER -> 0

InvalidValue(expected, field, got) ==
    [kind |-> "InvalidValue", expected |-> expected, field |-> field, got |-> got]

\* Token's Display: the name a field token is shown under.
TokenDisplay(kind) ==
    CASE kind \in {"FullYear", "HalfYear"} -> "Year"
      [] kind \in {"FullMonth", "WrittenMonth"} -> "Month"
      [] kind = "Day" -> "Day"
      [] kind \in {"TwentyFourHourDay", "TwelveHourDay", "Hour"} -> "Hour"
      [] kind = "Minute" -> "Minute"
      [] kind = "Second" -> "Second"
      [] kind = "Literal" -> "Literal"
      [] kind = "AmOrPm" -> "Am or Pm"

Build(b) ==
    LET max_days == days_in_month(b.year, b.month)
    IN IF max_days = 0
       THEN Err(InvalidValue(<<"A month between 1-12">>, "FullMonth", b.month))
       ELSE IF b.month > 12
       THEN Err(InvalidValue(<<"1-12">>, "FullMonth", b.month))
       ELSE IF b.day = 0 \/ b.day > max_days
       THEN Err(InvalidValue(<<"A day between 1-", max_days>>, "Day", b.day))
       ELSE IF b.hour > 23
       THEN Err(InvalidValue(<<"0-23">>, "Hour", b.hour))
       ELSE IF b.minute > 59
       THEN Err(InvalidValue(<<"0-60">>, "Day", b.minute))
       ELSE IF b.second > 59
       THEN Err(InvalidValue(<<"0-60">>, "Second", b.second))
       ELSE Ok([year |-> b.year, month |-> b.month, day |-> b.day,
                hour |-> b.hour, minute |-> b.minute, second |-> b.second])

\* usize's Display: the decimal digits, no padding.
RECURSIVE ToDigits(_)
ToDigits(n) ==
    IF n < 10 THEN <<DigitChars[n + 1]>> ELSE ToDigits(n \div 10) \o <<DigitChars[(n % 10) + 1]>>

\* The digits with no padding.
PadNone(n) == ToDigits(n)

\* {:02}: zero-padded to at least two characters.
Pad2(n) == IF n < 10 THEN <<"0">> \o ToDigits(n) ELSE ToDigits(n)

\* impl fmt::Display for Datetime
Display(d) ==
    Pad2(d.day) \o <<"/">> \o Pad2(d.month) \o <<"/">> \o Pad2(d.year) \o <<" ">>
    \o Pad2(d.hour) \o <<":">> \o Pad2(d.minute) \o <<":">> \o Pad2(d.second)

\* DatetimeBuilder's setters: Self { field, ..self }
year(b, v) == [b EXCEPT !.year = v]

month(b, v) == [b EXCEPT !.month = v]

day(b, v) == [b EXCEPT !.day = v]

hour(b, v) == [b EXCEPT !.hour = v]

minute(b, v) == [b EXCEPT !.minute = v]

second(b, v) == [b EXCEPT !.second = v]

(***************************************************************************)
(* interpreter.rs                                                          *)
(***************************************************************************)

RECURSIVE DigitsValue(_)
DigitsValue(s) ==
    IF s = <<>> THEN 0 ELSE 10 * DigitsValue(Take(s, Len(s) - 1)) + DigitVal(s[Len(s)])

\* str::parse::<usize>: an optional leading '+', then one or more digits.
ParseUsize(part) ==
    LET body == IF Len(part) > 1 /\ part[1] = "+" THEN Tail(part) ELSE part
    IN IF body # <<>> /\ \A i \in 1..Len(body) : IsDigit(body[i])
       THEN [ok |-> TRUE, value |-> DigitsValue(body)]
       ELSE [ok |-> FALSE, value |-> 0]

\* The length test with its boundary off by one.
TooShortOrEqual(input, width) == ByteLen(input) <= width

\* The length test asking for exactly `width` bytes.
NotExactly(input, width) == ByteLen(input) # width

TooShort(input, width) == ByteLen(input) < width

\* parse_digits: Ok((number, rest)), an error, or the abort of split_at when
\* `width` is not on a character boundary.
parse_digits(input, width) ==
    IF TooShort(input, width)
    THEN [tag |-> "Err", number |-> 0, rest |-> input,
          err |-> [kind |-> "InputTooShort", expected |-> width,
                   unexpected |-> ByteLen(input)]]
    ELSE IF ~IsCharBoundary(input, width)
    THEN [tag |-> "Panic", number |-> 0, rest |-> input, err |-> NoErr]
    ELSE LET k    == CharsIn(input, width)
             part == Take(input, k)
             n    == ParseUsize(part)
         IN IF n.ok
            THEN [tag |-> "Ok", number |-> n.value, rest |-> Drop(input, k), err |-> NoErr]
            ELSE [tag |-> "Err", number |-> 0, rest |-> input,
                  err |-> [kind |-> "ParseIntError", part |-> part]]

\* What one arm of the match leaves: go on with the next token, or return.
Continue(in, b) == [tag |-> "Continue", input |-> in, datetime |-> b, err |-> NoErr]

Stop(r, in, b) == [tag |-> r.tag, input |-> in, datetime |-> b, err |-> r.err]

ArmFullYear(in, b) ==
    LET r == parse_digits(in, 4)
    IN IF r.tag = "Ok" THEN Continue(r.rest, year(b, r.number)) ELSE Stop(r, in, b)

\* The pivot with its boundary off by one.
HalfYearPivotInclusive(y) == IF y <= 25 THEN y + 2000 ELSE y + 1900

HalfYearPivot(y) == IF y < 25 THEN y + 2000 ELSE y + 1900

ArmHalfYear(in, b) ==
    LET r == parse_digits(in, 2)
    IN IF r.tag = "Ok" THEN Continue(r.rest, year(b, HalfYearPivot(r.number)))
       ELSE Stop(r, in, b)

ArmFullMonth(in, b) ==
    LET r == parse_digits(in, 2)
    IN IF r.tag = "Ok" THEN Continue(r.rest, month(b, r.number)) ELSE Stop(r, in, b)

ArmDay(in, b) ==
    LET r == parse_digits(in, 2)
    IN IF r.tag = "Ok" THEN Continue(r.rest, day(b, r.number)) ELSE Stop(r, in, b)

ArmHour(in, b) ==
    LET r == parse_digits(in, 2)
    IN IF r.tag = "Ok" THEN Continue(r.rest, hour(b, r.number)) ELSE Stop(r, in, b)

ArmMinute(in, b) ==
    LET r == parse_digits(in, 2)
    IN IF r.tag = "Ok" THEN Continue(r.rest, minute(b, r.number)) ELSE Stop(r, in, b)

ArmSecond(in, b) ==
    LET r == parse_digits(in, 2)
    IN IF r.tag = "Ok" THEN Continue(r.rest, second(b, r.number)) ELSE Stop(r, in, b)

\* Twelve added whatever the hour.
PmHourAlways(h) == h + 12

PmHour(h) == IF h < 12 THEN h + 12 ELSE h

AmHour(h) == IF h = 12 THEN 0 ELSE h

ArmAmOrPm(in, b) ==
    IF StartsWith(in, <<"P", "M">>)
    THEN Continue(Drop(in, 2), hour(b, PmHour(b.hour)))
    ELSE IF StartsWith(in, <<"A", "M">>)
    THEN Continue(Drop(in, 2), hour(b, AmHour(b.hour)))
    ELSE [tag |-> "Err", input |-> in, datetime |-> b,
          err |-> [kind |-> "WrongSequence", expected |-> <<"AM or PM">>,
                   unexpected |-> GetPrefixOrAll(in, 2)]]

ArmLiteral(pattern, in, b) ==
    IF StartsWith(in, pattern)
    THEN Continue(Drop(in, Len(pattern)), b)
    ELSE [tag |-> "Err", input |-> in, datetime |-> b,
          err |-> [kind |-> "WrongSequence", expected |-> pattern,
                   unexpected |-> GetPrefixOrAll(in, ByteLen(pattern))]]

\* token => todo!(...)
ArmTodo(in, b) == [tag |-> "Panic", input |-> in, datetime |-> b, err |-> NoErr]

\* The match of parse_datetime's loop body.
Arm(token, in, b) ==
    CASE token.kind = "FullYear" -> ArmFullYear(in, b)
      [] token.kind = "HalfYear" -> ArmHalfYear(in, b)
      [] token.kind = "FullMonth" -> ArmFullMonth(in, b)
      [] token.kind = "Day" -> ArmDay(in, b)
      [] token.kind \in {"TwelveHourDay", "TwentyFourHourDay"} -> ArmHour(in, b)
      [] token.kind = "AmOrPm" -> ArmAmOrPm(in, b)
      [] token.kind = "Minute" -> ArmMinute(in, b)
      [] token.kind = "Second" -> ArmSecond(in, b)
      [] token.kind = "Literal" -> ArmLiteral(token.pattern, in, b)
      [] OTHER -> ArmTodo(in, b)

\* Interpreter::parse_datetime as a function: the loop run to its return.
RECURSIVE RunTokens(_, _, _)
RunTokens(lx, in, b) ==
    LET n == LexerNext(lx)
    IN CASE n.item.tag = "None" -> Build(b)
         [] n.item.tag = "Err" -> Err(n.item.err)
         [] n.item.tag = "Panic" -> Panic
         [] OTHER ->
              LET a == Arm(n.item.token, in, b)
              IN CASE a.tag = "Continue" -> RunTokens(n.lexer, a.input, a.datetime)
                   [] a.tag = "Err" -> Err(a.err)
                   [] OTHER -> Panic

parse_datetime(in, expected_format) ==
    RunTokens(DateTimeLexerNew(expected_format), in, DatetimeBuilderDefault)
(***************************************************************************)
(* The calls the model makes: patterns and inputs                          *)
(***************************************************************************)

\* The candidate list with "%H:%M %p" tried before "%H:%M".
COMMON_FORMATS_AmPmFirst ==
    << <<"%", "Y", "/", "%", "m", "/", "%", "d">>,
       <<"%", "Y", "-", "%", "m", "-", "%", "d">>,
       <<"%", "Y", "/", "%", "d", "/", "%", "m">>,
       <<"%", "Y", "/", "%", "d", "/", "%", "m">>,
       <<"%", "y", "/", "%", "m", "/", "%", "d">>,
       <<"%", "y", "-", "%", "m", "-", "%", "d">>,
       <<"%", "y", "/", "%", "d", "/", "%", "m">>,
       <<"%", "y", "/", "%", "d", "/", "%", "m">>,
       <<"%", "H", ":", "%", "M", ":", "%", "S">>,
       <<"%", "H", "h", ":", "%", "M", "m", ":", "%", "S", "s">>,
       <<"%", "H", " ", "%", "p", ":", "%", "M", ":", "%", "S">>,
       <<"%", "H", " ", "%", "p", ":", "%", "M", ":", "%", "S">>,
       <<"%", "H", ":", "%", "M", " ", "%", "p">>,
       <<"%", "H", "h", ":", "%", "M", "m">>,
       <<"%", "H", ":", "%", "M">> >>

\* COMMON_FORMATS of try_guess, in its order.
COMMON_FORMATS ==
    << <<"%", "Y", "/", "%", "m", "/", "%", "d">>,
       <<"%", "Y", "-", "%", "m", "-", "%", "d">>,
       <<"%", "Y", "/", "%", "d", "/", "%", "m">>,
       <<"%", "Y", "/", "%", "d", "/", "%", "m">>,
       <<"%", "y", "/", "%", "m", "/", "%", "d">>,
       <<"%", "y", "-", "%", "m", "-", "%", "d">>,
       <<"%", "y", "/", "%", "d", "/", "%", "m">>,
       <<"%", "y", "/", "%", "d", "/", "%", "m">>,
       <<"%", "H", ":", "%", "M", ":", "%", "S">>,
       <<"%", "H", "h", ":", "%", "M", "m", ":", "%", "S", "s">>,
       <<"%", "H", " ", "%", "p", ":", "%", "M", ":", "%", "S">>,
       <<"%", "H", " ", "%", "p", ":", "%", "M", ":", "%", "S">>,
       <<"%", "H", ":", "%", "M">>,
       <<"%", "H", "h", ":", "%", "M", "m">>,
       <<"%", "H", ":", "%", "M", " ", "%", "p">> >>

\* "%Y-%m-%d"
FmtYmdDash == <<"%", "Y", "-", "%", "m", "-", "%", "d">>

\* "%d/%m/%Y"
FmtDmySlash == <<"%", "d", "/", "%", "m", "/", "%", "Y">>

\* "%d-%m-%Y"
FmtDmyDash == <<"%", "d", "-", "%", "m", "-", "%", "Y">>

\* "%Y-%m-%d %H:%M:%S"
FmtFull == <<"%", "Y", "-", "%", "m", "-", "%", "d", " ", "%", "H", ":", "%", "M", ":", "%", "S">>

\* "%I:%M:%S %p"
FmtTwelveHour == <<"%", "I", ":", "%", "M", ":", "%", "S", " ", "%", "p">>

\* "%H:%M:%S"
FmtHms == <<"%", "H", ":", "%", "M", ":", "%", "S">>

\* "%d/%m/%Y %H:%M:%S"
FmtDisplay == <<"%", "d", "/", "%", "m", "/", "%", "Y", " ", "%", "H", ":", "%", "M", ":", "%", "S">>

\* "%y"
FmtHalfYear == <<"%", "y">>

\* "%p"
FmtAmPmOnly == <<"%", "p">>

\* "%H %p"
FmtHourAmPm == <<"%", "H", " ", "%", "p">>

\* "%p %I"
FmtAmPmThenHour == <<"%", "p", " ", "%", "I">>

\* "%d"
FmtDay == <<"%", "d">>

\* Calls of Datetime::from_str(date, date_format): <<date, date_format>>.
FromStrTests ==
    { <<<<"2", "0", "2", "3", "-", "1", "0", "-", "1", "5">>, FmtYmdDash>>,
      <<<<"1", "5", "/", "1", "0", "/", "2", "0", "2", "3">>, FmtDmySlash>>,
      <<<<"0", "4", "-", "0", "2", "-", "2", "0", "0", "3">>, FmtDmyDash>>,
      <<<<"0", "4", "-", "0", "2", "?", "2", "0", "0", "3">>, FmtDmyDash>>,
      <<<<"2", "0", "2", "3", "-", "0", "5", "-", "1", "5", " ", "1", "4", ":", "3", "0", ":", "2", "5">>, FmtFull>>,
      <<<<"0", "3", ":", "4", "5", ":", "2", "0", " ", "P", "M">>, FmtTwelveHour>>,
      <<<<"2", "0", "2", "3", "/", "0", "5", "/", "1", "5">>, FmtYmdDash>>,
      <<<<"2", "3", "-", "5", "-", "1", "5">>, FmtYmdDash>>,
      <<<<"2", "0", "a", "3", "-", "0", "5", "-", "1", "5">>, FmtYmdDash>>,
      <<<<"0", "0", "0", "1", "-", "0", "1", "-", "0", "1">>, FmtYmdDash>>,
      <<<<"2", "0", "2", "0", "-", "0", "2", "-", "2", "9">>, FmtYmdDash>>,
      <<<<"2", "0", "2", "3", "-", "1", "3", "-", "3", "2">>, FmtYmdDash>>,
      <<<<"2", "5", ":", "7", "0", ":", "9", "9">>, FmtHms>>,
      <<<<"1", "0", ":", "7", "0", ":", "0", "0">>, FmtHms>>,
      <<<<"1", "0", ":", "3", "0", ":", "9", "9">>, FmtHms>>,
      <<<<"2", "3">>, FmtYmdDash>>,
      <<<<"1", "2", "3">>, FmtYmdDash>>,
      <<<<>>, FmtYmdDash>>,
      <<<<"+", "1", "2", "3", "-", "0", "5", "-", "1", "5">>, FmtYmdDash>>,
      <<<<"2", "0", "2", "3", "-", "0", "2", "-", "2", "9">>, FmtYmdDash>>,
      <<<<"1", "9", "0", "0", "-", "0", "2", "-", "2", "9">>, FmtYmdDash>>,
      <<<<"2", "0", "0", "0", "-", "0", "2", "-", "2", "9">>, FmtYmdDash>>,
      <<<<"2", "0", "2", "3", "-", "0", "0", "-", "1", "0">>, FmtYmdDash>>,
      <<<<"2", "0", "2", "3", "-", "0", "4", "-", "3", "1">>, FmtYmdDash>>,
      <<<<"2", "0", "2", "3", "-", "1", "0", "-", "0", "0">>, FmtYmdDash>>,
      <<<<"P", "M">>, FmtAmPmOnly>>,
      <<<<"A", "M">>, FmtAmPmOnly>>,
      <<<<"X", "M">>, FmtAmPmOnly>>,
      <<<<"P">>, FmtAmPmOnly>>,
      <<<<"U+20AC", "M">>, FmtAmPmOnly>>,
      <<<<"1", "5", " ", "P", "M">>, FmtHourAmPm>>,
      <<<<"1", "2", " ", "A", "M">>, FmtHourAmPm>>,
      <<<<"0", "3", " ", "P", "M">>, FmtHourAmPm>>,
      <<<<"P", "M", " ", "0", "3">>, FmtAmPmThenHour>>,
      <<<<"a", "U+00E9">>, FmtDay>>,
      <<<<"U+00E9", "1">>, FmtDay>>,
      <<<<"1">>, FmtDay>>,
      <<<<"+", "7">>, FmtDay>>,
      <<<<"-", "7">>, FmtDay>>,
      <<<<"0", "7">>, FmtDay>>,
      <<<<"2", "0", "U+00E9", "3", "-", "0", "5", "-", "1", "5">>, FmtYmdDash>>,
      <<<<"2", "0", "2", "3", "U+00E9", "0", "5", "-", "1", "5">>, FmtYmdDash>> }

\* Patterns that the lexer rejects, aborts on, or that hold only literals.
FromStrPatternTests ==
    { <<<<"2", "0", "2", "3", " ", "w", "o", "r", "l", "d">>, <<"%", "Z">>>>,
      <<<<"2", "0", "2", "3", " ", "w", "o", "r", "l", "d">>, <<"%", " ">>>>,
      <<<<"2", "0", "2", "3", " ", "w", "o", "r", "l", "d">>, <<"%">>>>,
      <<<<"2", "0", "2", "3", " ", "w", "o", "r", "l", "d">>, <<"%", "U+00E9">>>>,
      <<<<"2", "0", "2", "3", " ", "w", "o", "r", "l", "d">>, <<"%", "B">>>>,
      <<<<"2", "0", "2", "3", " ", "w", "o", "r", "l", "d">>, <<"h", "e", "l", "l", "o", " ", "%", "Y", " ", "w", "o", "r", "l", "d">>>>,
      <<<<"2", "0", "2", "3", " ", "w", "o", "r", "l", "d">>, <<>>>>,
      <<<<"2", "0", "2", "3", " ", "w", "o", "r", "l", "d">>, <<"%", "Y", "%", "m", "%", "d">>>>,
      <<<<"2", "0", "2", "3", " ", "w", "o", "r", "l", "d">>, <<"x", "%">>>>,
      <<<<"2", "0", "2", "3", " ", "w", "o", "r", "l", "d">>, <<"%", "Y", "-", "%", "U+00E9">>>>,
      <<<<"2", "0", "2", "3", " ", "w", "o", "r", "l", "d">>, <<"%", "d", "%", "B">>>>,
      <<<<"2", "0", "2", "3", " ", "w", "o", "r", "l", "d">>, <<"%", "d", " ", "%", "\t">>>>,
      <<<<"2", "0", "2", "3", " ", "w", "o", "r", "l", "d">>, <<"U+00E9", "%", "d">>>>,
      <<<<"h", "e", "l", "l", "o", " ", "2", "0", "2", "3", " ", "w", "o", "r", "l", "d", "!">>, <<"h", "e", "l", "l", "o", " ", "%", "Y", " ", "w", "o", "r", "l", "d">>>>,
      <<<<"U+00E9", "0", "7">>, <<"U+00E9", "%", "d">>>>,
      <<<<"2", "0", "2", "3", "0", "5", "1", "5">>, <<"%", "Y", "%", "m", "%", "d">>>> }

\* Inputs of Datetime::try_guess(date).
GuessInputs ==
    { <<"2", "0", "2", "3", "-", "1", "0", "-", "1", "5">>,
      <<"1", "5", "/", "1", "0", "/", "2", "0", "2", "3">>,
      <<"n", "o", "t", " ", "a", " ", "d", "a", "t", "e">>,
      <<"1", "2", ":", "3", "0", ":", "1", "U+00E9">>,
      <<"1", "0", ":", "3", "0", " ", "P", "M">>,
      <<"2", "3", "/", "1", "0", "/", "1", "5">>,
      <<"1", "2", ":", "3", "0", ":", "4", "5">>,
      <<"1", "2", "h", ":", "3", "0", "m">>,
      <<"1", "2", "h", ":", "3", "0", "m", ":", "0", "5", "s">>,
      <<"0", "5", " ", "P", "M", ":", "3", "0", ":", "0", "0">>,
      <<"1", "2", ":", "3", "0">>,
      <<"9", "9", "/", "9", "9", "/", "9", "9">>,
      <<>>,
      <<"a", "U+00E9">>,
      <<"2", "0", "2", "3", "/", "1", "0", "/", "1", "5">>,
      <<"2", "0", "2", "3", "/", "1", "5", "/", "1", "0">>,
      <<"2", "4", "-", "0", "2", "-", "2", "9">>,
      <<"2", "3", "-", "0", "2", "-", "2", "9">>,
      <<"0", "7", ":", "1", "5", " ", "A", "M">>,
      <<"1", "1", ":", "5", "9", " ", "P", "M">>,
      <<"1", "2", ":", "0", "0", " ", "A", "M">>,
      <<"1", "U+00E9", ":", "3", "0">>,
      <<"x", "%", "B">> }

\* Inputs "hh:45:20 AM" and "hh:45:20 PM" for every two-digit hh up to MaxTwelveHour.
MaxTwelveHour == 13

TwelveHourTests ==
    { <<Pad2(h) \o <<":", "4", "5", ":", "2", "0", " ">> \o ap, FmtTwelveHour>> :
        h \in 0..MaxTwelveHour, ap \in {<<"A", "M">>, <<"P", "M">>} }

\* Every two-digit text 00..99 against "%y".
HalfYearTests ==
    { <<(<<DigitChars[a + 1], DigitChars[b + 1]>>), FmtHalfYear>> : a \in 0..9, b \in 0..9 }

FromStrCalls == FromStrTests \cup FromStrPatternTests \cup TwelveHourTests \cup HalfYearTests

\* Patterns the lexer is iterated over on its own: every text of up to
\* MaxPatternLen characters over PatternAlphabet, the patterns of the lexer's
\* tests, and the candidates of try_guess.
MaxPatternLen == 4

PatternAlphabet == {"%", "Y", "a", " ", NonAscii2}

ShortPatterns == UNION {[1..n -> PatternAlphabet] : n \in 0..MaxPatternLen}

LexerTestPatterns ==
    { <<"h", "e", "l", "l", "o", " ", "w", "o", "r", "l", "d">>,
      <<"h", "e", "l", "l", "o", " ", "%", "Y", " ", "w", "o", "r", "l", "d">>,
      <<"D", "a", "t", "e", ":", " ", "%", "Y", "-", "%", "m", "-", "%", "d", " ", "T", "i", "m", "e", ":", " ", "%", "H", ":", "%", "M", ":", "%", "S">>,
      <<"%", "Y", "%", "m", "%", "d">>,
      <<"%", "d", "-", "%", "m", "-", "%", "Y", " ", "%", "Z">>,
      <<"%", "I", ":", "%", "M", " ", "%", "p", "%", " ">> }

LexerPatterns ==
    ShortPatterns \cup LexerTestPatterns \cup {COMMON_FORMATS[i] : i \in 1..Len(COMMON_FORMATS)}

\* How many calls of next() are followed, and how many after the first None.
MaxCalls == 24

MaxNoneCalls == 3

\* The values the builder's setters are called with.
MaxMonth == 13

MaxHour == 24

Years == {999, 1000, DefaultYear, 2000, 2023, 2024, 9999, 10000}

Months == {0, 1, 2, 4, 12, MaxMonth}

Days == {0, 1, 28, 29, 30, 31, 32}

Hours == {0, 23, MaxHour}

Minutes == {0, 59, 60}

Seconds == {0, 59, 60}

\* Inputs "hh:mm", "hh:mm AM" and "hh:mm PM" of try_guess, hh up to
\* MaxTwelveHour and the hours of Hours, mm in 30, 59, 60.
GuessClockTests ==
    { Pad2(h) \o <<":">> \o Pad2(m) \o ap :
        h \in (0..MaxTwelveHour) \cup Hours, m \in {30, 59, 60},
        ap \in {<<>>, <<" ", "A", "M">>, <<" ", "P", "M">>, <<" ", "p", "m">>} }

GuessCalls == GuessInputs \cup GuessClockTests

(***************************************************************************)
(* The state machine                                                       *)
(***************************************************************************)

VARIABLES
    mode,      \* the operation under way: "builder", "from_str", "try_guess", "lexer"
    pc,        \* where it is
    date,      \* the text handed to from_str / try_guess
    format,    \* the pattern parse_datetime runs
    fmtIdx,    \* try_guess: index of the candidate in COMMON_FORMATS
    lexer,     \* parse_datetime: the DateTimeLexer
    input,     \* parse_datetime: the rest of the input
    datetime,  \* the DatetimeBuilder
    parsed,    \* try_guess: what parse_datetime returned for the candidate
    shown,     \* the Datetime whose Display is `date`, when it is one
    items,     \* the lexer iterated on its own: what next() has returned so far
    result     \* what the operation returned

vars ==
    <<mode, pc, date, format, fmtIdx, lexer, input, datetime, parsed, shown, items, result>>

InitBuilder ==
    /\ mode = "builder" /\ pc = "builder"
    /\ date = <<>> /\ format = <<>> /\ fmtIdx = 0
    /\ lexer = DateTimeLexerNew(<<>>) /\ input = <<>>
    /\ datetime = DatetimeBuilderDefault

InitFromStr ==
    /\ mode = "from_str" /\ pc = "loop"
    /\ \E c \in FromStrCalls :
         /\ date = c[1] /\ format = c[2]
         /\ lexer = DateTimeLexerNew(c[2]) /\ input = c[1]
    /\ fmtIdx = 0
    /\ datetime = DatetimeBuilderDefault

InitTryGuess ==
    /\ mode = "try_guess" /\ pc = "for"
    /\ date \in GuessCalls /\ format = <<>> /\ fmtIdx = 1
    /\ lexer = DateTimeLexerNew(<<>>) /\ input = date
    /\ datetime = DatetimeBuilderDefault

InitLexer ==
    /\ mode = "lexer" /\ pc = "lexing"
    /\ format \in LexerPatterns /\ lexer = DateTimeLexerNew(format)
    /\ date = <<>> /\ input = <<>> /\ fmtIdx = 0
    /\ datetime = DatetimeBuilderDefault

Init ==
    /\ (InitBuilder \/ InitFromStr \/ InitTryGuess \/ InitLexer)
    /\ items = <<>>
    /\ parsed = Pending
    /\ shown = NoDatetime
    /\ result = Pending

\* ---- DatetimeBuilder used directly: setters, then build() ----

SetYear ==
    /\ pc = "builder"
    /\ \E v \in Years : datetime' = year(datetime, v)
    /\ UNCHANGED <<mode, pc, date, format, fmtIdx, lexer, input, parsed, shown, items, result>>

SetMonth ==
    /\ pc = "builder"
    /\ \E v \in Months : datetime' = month(datetime, v)
    /\ UNCHANGED <<mode, pc, date, format, fmtIdx, lexer, input, parsed, shown, items, result>>

SetDay ==
    /\ pc = "builder"
    /\ \E v \in Days : datetime' = day(datetime, v)
    /\ UNCHANGED <<mode, pc, date, format, fmtIdx, lexer, input, parsed, shown, items, result>>

SetHour ==
    /\ pc = "builder"
    /\ \E v \in Hours : datetime' = hour(datetime, v)
    /\ UNCHANGED <<mode, pc, date, format, fmtIdx, lexer, input, parsed, shown, items, result>>

SetMinute ==
    /\ pc = "builder"
    /\ \E v \in Minutes : datetime' = minute(datetime, v)
    /\ UNCHANGED <<mode, pc, date, format, fmtIdx, lexer, input, parsed, shown, items, result>>

SetSecond ==
    /\ pc = "builder"
    /\ \E v \in Seconds : datetime' = second(datetime, v)
    /\ UNCHANGED <<mode, pc, date, format, fmtIdx, lexer, input, parsed, shown, items, result>>

BuilderBuild ==
    /\ pc = "builder"
    /\ result' = Build(datetime)
    /\ pc' = "built"
    /\ UNCHANGED <<mode, date, format, fmtIdx, lexer, input, datetime, parsed, shown, items>>

\* The built Datetime is rendered with Display and the text handed to
\* from_str with the pattern of that rendering.
DisplayThenFromStr ==
    /\ pc = "built" /\ result.tag = "Ok"
    /\ mode' = "from_str" /\ pc' = "loop"
    /\ shown' = result.dt
    /\ date' = Display(result.dt) /\ input' = Display(result.dt)
    /\ format' = FmtDisplay /\ lexer' = DateTimeLexerNew(FmtDisplay)
    /\ datetime' = DatetimeBuilderDefault
    /\ result' = Pending
    /\ UNCHANGED <<fmtIdx, parsed, items>>

\* ---- Interpreter::parse_datetime: one iteration of `for token in lexer` ----

\* parse_datetime returns r: to from_str's caller, or into try_guess's match;
\* an abort unwinds through both.
Return(r) ==
    IF mode = "try_guess" /\ r.tag # "Panic"
    THEN /\ parsed' = r /\ pc' = "match"
         /\ UNCHANGED <<mode, date, format, fmtIdx, lexer, input, datetime, shown, items, result>>
    ELSE /\ result' = r /\ pc' = "done"
         /\ UNCHANGED <<mode, date, format, fmtIdx, lexer, input, datetime, parsed, shown, items>>

NextItem == LexerNext(lexer).item

TokenIs(kinds) == pc = "loop" /\ NextItem.tag = "Ok" /\ NextItem.token.kind \in kinds

\* What the arm leaves: the loop goes on with the lexer advanced, or returns.
Apply(a) ==
    IF a.tag = "Continue"
    THEN /\ lexer' = LexerNext(lexer).lexer
         /\ input' = a.input
         /\ datetime' = a.datetime
         /\ UNCHANGED <<mode, pc, date, format, fmtIdx, parsed, shown, items, result>>
    ELSE Return(IF a.tag = "Err" THEN Err(a.err) ELSE Panic)

StepLexError == pc = "loop" /\ NextItem.tag = "Err" /\ Return(Err(NextItem.err))

StepLexPanic == pc = "loop" /\ NextItem.tag = "Panic" /\ Return(Panic)

StepFullYear == TokenIs({"FullYear"}) /\ Apply(ArmFullYear(input, datetime))

StepHalfYear == TokenIs({"HalfYear"}) /\ Apply(ArmHalfYear(input, datetime))

StepFullMonth == TokenIs({"FullMonth"}) /\ Apply(ArmFullMonth(input, datetime))

StepDay == TokenIs({"Day"}) /\ Apply(ArmDay(input, datetime))

StepHour ==
    TokenIs({"TwelveHourDay", "TwentyFourHourDay"}) /\ Apply(ArmHour(input, datetime))

StepAmOrPm == TokenIs({"AmOrPm"}) /\ Apply(ArmAmOrPm(input, datetime))

StepMinute == TokenIs({"Minute"}) /\ Apply(ArmMinute(input, datetime))

StepSecond == TokenIs({"Second"}) /\ Apply(ArmSecond(input, datetime))

StepLiteral ==
    TokenIs({"Literal"}) /\ Apply(ArmLiteral(NextItem.token.pattern, input, datetime))

StepTodo == TokenIs({"WrittenMonth", "Hour"}) /\ Apply(ArmTodo(input, datetime))

\* The lexer is exhausted: datetime.build()
StepBuild == pc = "loop" /\ NextItem.tag = "None" /\ Return(Build(datetime))

\* ---- Datetime::try_guess ----

TryGuessNextFormat ==
    /\ pc = "for" /\ fmtIdx <= Len(COMMON_FORMATS)
    /\ format' = COMMON_FORMATS[fmtIdx]
    /\ lexer' = DateTimeLexerNew(COMMON_FORMATS[fmtIdx])
    /\ input' = date
    /\ datetime' = DatetimeBuilderDefault
    /\ pc' = "loop"
    /\ UNCHANGED <<mode, date, fmtIdx, parsed, shown, items, result>>

TryGuessOk ==
    /\ pc = "match" /\ parsed.tag = "Ok"
    /\ result' = SomeDt(parsed.dt)
    /\ pc' = "done"
    /\ UNCHANGED <<mode, date, format, fmtIdx, lexer, input, datetime, parsed, shown, items>>

TryGuessErr ==
    /\ pc = "match" /\ parsed.tag = "Err"
    /\ fmtIdx' = fmtIdx + 1
    /\ pc' = "for"
    /\ UNCHANGED <<mode, date, format, lexer, input, datetime, parsed, shown, items, result>>

TryGuessNone ==
    /\ pc = "for" /\ fmtIdx > Len(COMMON_FORMATS)
    /\ result' = NoneDt
    /\ pc' = "done"
    /\ UNCHANGED <<mode, date, format, fmtIdx, lexer, input, datetime, parsed, shown, items>>

\* ---- DateTimeLexer iterated on its own: one call of next() ----

NoneItem == [tag |-> "None"]

NoneCount == Cardinality({i \in 1..Len(items) : items[i].tag = "None"})

\* next() returns Some(item): a token or an error.
LexerYield ==
    /\ pc = "lexing" /\ Len(items) < MaxCalls
    /\ NextItem.tag \in {"Ok", "Err"}
    /\ items' = Append(items, NextItem)
    /\ lexer' = LexerNext(lexer).lexer
    /\ UNCHANGED <<mode, pc, date, format, fmtIdx, input, datetime, parsed, shown, result>>

\* next() returns None.
LexerEnd ==
    /\ pc = "lexing" /\ Len(items) < MaxCalls /\ NoneCount < MaxNoneCalls
    /\ NextItem.tag = "None"
    /\ items' = Append(items, NoneItem)
    /\ lexer' = LexerNext(lexer).lexer
    /\ UNCHANGED <<mode, pc, date, format, fmtIdx, input, datetime, parsed, shown, result>>

\* next() aborts on the slice inside a character.
LexerAbort ==
    /\ pc = "lexing"
    /\ NextItem.tag = "Panic"
    /\ result' = Panic /\ pc' = "done"
    /\ UNCHANGED <<mode, date, format, fmtIdx, lexer, input, datetime, parsed, shown, items>>

Next ==
    \/ LexerYield \/ LexerEnd \/ LexerAbort
    \/ SetYear \/ SetMonth \/ SetDay \/ SetHour \/ SetMinute \/ SetSecond
    \/ BuilderBuild \/ DisplayThenFromStr
    \/ StepLexError \/ StepLexPanic
    \/ StepFullYear \/ StepHalfYear \/ StepFullMonth \/ StepDay \/ StepHour
    \/ StepAmOrPm \/ StepMinute \/ StepSecond \/ StepLiteral \/ StepTodo
    \/ StepBuild
    \/ TryGuessNextFormat \/ TryGuessOk \/ TryGuessErr \/ TryGuessNone

Spec == Init /\ [][Next]_vars

(***************************************************************************)
(* Properties                                                              *)
(***************************************************************************)

\* The calendar as the documentation states it.
LeapYear(y) == (y % 4 = 0 /\ y % 100 # 0) \/ y % 400 = 0

MonthLength(y, m) ==
    IF m \in {1, 3, 5, 7, 8, 10, 12} THEN 31
    ELSE IF m \in {4, 6, 9, 11} THEN 30
    ELSE IF LeapYear(y) THEN 29 ELSE 28

CalendarLegal(d) ==
    /\ d.month \in 1..12
    /\ d.day >= 1 /\ d.day <= MonthLength(d.year, d.month)
    /\ d.hour \in 0..23
    /\ d.minute \in 0..59
    /\ d.second \in 0..59

\* build() has just returned: called on the builder directly, or by
\* parse_datetime once the lexer is exhausted.
BuildReturned ==
    \/ pc = "built"
    \/ pc = "done" /\ mode = "from_str" /\ result.tag # "Panic" /\ NextItem.tag = "None"

\* C1: every Datetime that build() returns (and so every one from_str or
\* try_guess returns) is calendar-legal: month 1..12, day 1..days in that
\* month of that year under the leap-year rule, hour 0..23, minute and
\* second 0..59; and build() returns Ok with the six values unchanged for
\* every builder whose fields are within these bounds.
C1_BuildYieldsExactlyLegalDates ==
    /\ result.tag \in {"Ok", "Some"} => CalendarLegal(result.dt)
    /\ parsed.tag = "Ok" => CalendarLegal(parsed.dt)
    /\ (BuildReturned /\ CalendarLegal(datetime)) => result = Ok(datetime)
    /\ (BuildReturned /\ result.tag = "Ok") => result.dt = datetime

C1_Witness ==
    /\ pc = "built" /\ result.tag = "Ok"
    /\ result.dt.year = 2024 /\ result.dt.month = 2 /\ result.dt.day = 29
    /\ result.dt.hour = 23 /\ result.dt.minute = 59 /\ result.dt.second = 59

Date2023_10_15 ==
    [year |-> 2023, month |-> 10, day |-> 15, hour |-> 0, minute |-> 0, second |-> 0]

TryGuessDone == mode = "try_guess" /\ pc = "done"

\* C2: try_guess on a date written YYYY-MM-DD or DD/MM/YYYY succeeds and
\* recovers its year, month and day: try_guess("2023-10-15") and
\* try_guess("15/10/2023") both return year 2023, month 10, day 15, and
\* try_guess("not a date") returns nothing.
C2_TryGuessRecoversDate ==
    TryGuessDone =>
        /\ date = <<"2", "0", "2", "3", "-", "1", "0", "-", "1", "5">> => result = SomeDt(Date2023_10_15)
        /\ date = <<"1", "5", "/", "1", "0", "/", "2", "0", "2", "3">> => result = SomeDt(Date2023_10_15)
        /\ date = <<"n", "o", "t", " ", "a", " ", "d", "a", "t", "e">> => result = NoneDt

\* The candidates of COMMON_FORMATS that parse the date.
Succeeding(d) ==
    {i \in 1..Len(COMMON_FORMATS) : parse_datetime(d, COMMON_FORMATS[i]).tag = "Ok"}

Lowest(S) == CHOOSE i \in S : \A j \in S : i <= j

\* C3: for every input, try_guess returns Some(d) exactly when at least one
\* candidate pattern parses the input, d being the result of the
\* lowest-index candidate that does; it returns None exactly when every
\* candidate fails; it surfaces nothing else.
C3_TryGuessFirstMatchWins ==
    TryGuessDone =>
        /\ result.tag \in {"Some", "None"}
        /\ result.tag = "Some" <=> Succeeding(date) # {}
        /\ result.tag = "Some" =>
             result.dt = parse_datetime(date, COMMON_FORMATS[Lowest(Succeeding(date))]).dt
        /\ result.tag = "None" <=>
             \A i \in 1..Len(COMMON_FORMATS) :
                 parse_datetime(date, COMMON_FORMATS[i]).tag = "Err"

\* The width a numeric token takes from the input.
FieldWidth(kind) == IF kind = "FullYear" THEN 4 ELSE 2

NumericKinds ==
    {"FullYear", "HalfYear", "FullMonth", "Day", "TwelveHourDay", "TwentyFourHourDay",
     "Minute", "Second"}

\* parse_datetime has returned while a numeric token was being matched: the
\* lexer and the input stay as that token found them.
StoppedAtNumeric ==
    /\ \/ pc = "done" /\ mode = "from_str"
       \/ pc = "match" /\ parsed.tag = "Err"
    /\ NextItem.tag = "Ok" /\ NextItem.token.kind \in NumericKinds

Returned == IF pc = "match" THEN parsed ELSE result

FromStrDone(d, f) == mode = "from_str" /\ pc = "done" /\ date = d /\ format = f

\* C4 as stated: an input whose year field has fewer than four digits before
\* the separator, such as "23-5-15" with "%Y-%m-%d", fails with InputTooShort
\* and with no other class of error.
C4_ShortYearIsInputTooShort ==
    FromStrDone(<<"2", "3", "-", "5", "-", "1", "5">>, FmtYmdDash) =>
        result.tag = "Err" /\ result.err.kind = "InputTooShort"

\* C4 amended: "23-5-15" with "%Y-%m-%d" fails with the integer-parse error
\* (the four bytes "23-5" taken for %Y are no integer), and a numeric token
\* fails with InputTooShort exactly when fewer bytes remain than its width,
\* reporting that width and the bytes left.
C4_TooShortOnlyWhenFewerBytesThanWidth ==
    /\ FromStrDone(<<"2", "3", "-", "5", "-", "1", "5">>, FmtYmdDash) =>
           result.tag = "Err" /\ result.err.kind = "ParseIntError"
    /\ StoppedAtNumeric =>
           /\ (Returned.tag = "Err" /\ Returned.err.kind = "InputTooShort")
                  <=> ByteLen(input) < FieldWidth(NextItem.token.kind)
           /\ (Returned.tag = "Err" /\ Returned.err.kind = "InputTooShort") =>
                  /\ Returned.err.expected = FieldWidth(NextItem.token.kind)
                  /\ Returned.err.unexpected = ByteLen(input)

C4_Witness ==
    /\ FromStrDone(<<"2", "3", "-", "5", "-", "1", "5">>, FmtYmdDash)
    /\ result.tag = "Err" /\ result.err.kind = "ParseIntError"
    /\ input = date

\* A Datetime was rendered with Display and from_str has returned for it.
RoundTripDone == mode = "from_str" /\ pc = "done" /\ shown # NoDatetime

\* C5 as stated: for every valid Datetime, of any year, rendering it with
\* Display and parsing the text with "%d/%m/%Y %H:%M:%S" succeeds and recovers
\* the original fields.
C5_RoundTripAnyYear == RoundTripDone => result = Ok(shown)

\* C5 amended: the round trip through Display and "%d/%m/%Y %H:%M:%S"
\* recovers every valid Datetime whose year has four digits (1000..9999).
C5_RoundTripFourDigitYear ==
    (RoundTripDone /\ shown.year >= 1000 /\ shown.year <= 9999) =>
        /\ date = Display(shown)
        /\ result = Ok(shown)

C5_Witness ==
    /\ RoundTripDone /\ result = Ok(shown)
    /\ shown.year = 9999 /\ shown.month = 2 /\ shown.day = 28
    /\ shown.hour = 23 /\ shown.minute = 59 /\ shown.second = 59
    /\ input = <<>>

\* The standard conversion of a 12-hour clock value.
TwentyFourHour(h, pm) == IF pm THEN (h % 12) + 12 ELSE h % 12

PM == <<"P", "M">>

AM == <<"A", "M">>

\* Whether the pattern text s holds the specifier %c.
HasSpecifier(s, c) == \E i \in 1..(Len(s) - 1) : s[i] = "%" /\ s[i + 1] = c

\* The part of the pattern the lexer has already yielded.
Lexed == Take(format, Len(format) - Len(lexer.rest))

\* The AmOrPm arm's rule for the stored hour.
AmOrPmRule ==
    /\ (StepAmOrPm /\ StartsWith(input, PM)) =>
           /\ datetime'.hour = IF datetime.hour < 12 THEN datetime.hour + 12 ELSE datetime.hour
           /\ input' = Drop(input, 2)
    /\ (StepAmOrPm /\ StartsWith(input, AM)) =>
           /\ datetime'.hour = IF datetime.hour = 12 THEN 0 ELSE datetime.hour
           /\ input' = Drop(input, 2)

\* "%I:%M:%S %p" on "hh:45:20 AM|PM", hh in 01..12, gives the 24-hour value.
TwelveHourConverted ==
    \A h \in 1..12 : \A pm \in BOOLEAN :
        FromStrDone(Pad2(h) \o <<":", "4", "5", ":", "2", "0", " ">> \o (IF pm THEN PM ELSE AM),
                    FmtTwelveHour) =>
            result = Ok([year |-> DefaultYear, month |-> 1, day |-> 1,
                         hour |-> TwentyFourHour(h, pm), minute |-> 45, second |-> 20])

\* C6 as stated: on "PM" the hour h becomes h+12 if h < 12 and stays if
\* h >= 12; on "AM" it becomes 0 if h = 12 and stays otherwise; so
\* "%I:%M:%S %p" yields the standard 24-hour value for every hh in 01..12; and
\* a pattern with %p and no earlier %I yields hour 12 on "PM".
C6_AmPmReconciliation ==
    /\ []TwelveHourConverted
    /\ [][/\ AmOrPmRule
          /\ (StepAmOrPm /\ StartsWith(input, PM) /\ ~HasSpecifier(Lexed, "I")) =>
                 datetime'.hour = 12]_vars

\* C6 amended: the same, the last clause being: a pattern with %p and no
\* earlier hour token (neither %I nor %H) yields hour 12 on "PM".
C6_AmPmReconciliationNoEarlierHour ==
    /\ []TwelveHourConverted
    /\ [][/\ AmOrPmRule
          /\ (/\ StepAmOrPm /\ StartsWith(input, PM)
              /\ ~HasSpecifier(Lexed, "I") /\ ~HasSpecifier(Lexed, "H")) =>
                 datetime'.hour = 12]_vars

C6_Witness ==
    /\ FromStrDone(<<"0", "3", ":", "4", "5", ":", "2", "0", " ", "P", "M">>, FmtTwelveHour)
    /\ result.tag = "Ok" /\ result.dt.hour = 15 /\ result.dt.minute = 45
    /\ result.dt.second = 20

\* The first field out of range, in build()'s order, under the name the
\* error's field token is displayed with; "" when every field is in range.
FirstInvalidField(b) ==
    IF b.month \notin 1..12 THEN "Month"
    ELSE IF b.day = 0 \/ b.day > MonthLength(b.year, b.month) THEN "Day"
    ELSE IF b.hour > 23 THEN "Hour"
    ELSE IF b.minute > 59 THEN "Minute"
    ELSE IF b.second > 59 THEN "Second"
    ELSE ""

\* C7: a failing build() fails on the first out-of-range field in the order
\* month, day, hour, minute, second, and its InvalidValue error names exactly
\* that field (the day error carrying the month's actual maximum).
C7_ErrorNamesFirstInvalidField ==
    (BuildReturned /\ result.tag = "Err") =>
        /\ result.err.kind = "InvalidValue"
        /\ TokenDisplay(result.err.field) = FirstInvalidField(datetime)
        /\ FirstInvalidField(datetime) = "Day" =>
               result.err.expected = <<"A day between 1-", MonthLength(datetime.year, datetime.month)>>

\* C8: for every two-digit value y consumed by %y the stored year is y + 2000
\* if y < 25 and y + 1900 otherwise, and so lies in 1925..2024.
C8_HalfYearPivot ==
    [][(StepHalfYear /\ Len(input) >= 2 /\ IsDigit(input[1]) /\ IsDigit(input[2])) =>
           LET y == 10 * DigitVal(input[1]) + DigitVal(input[2])
           IN /\ datetime'.year = IF y < 25 THEN y + 2000 ELSE y + 1900
              /\ datetime'.year >= 1925 /\ datetime'.year <= 2024
              /\ input' = Drop(input, 2)]_vars

C8_Witness ==
    /\ FromStrDone(<<"2", "5">>, FmtHalfYear)
    /\ datetime.year = 1925 /\ result.tag = "Ok" /\ result.dt.year = 1925

\* Text appended to an input.
Suffixes ==
    { <<"x">>, <<"9">>, <<" ", "P", "M">>, <<"-", "0", "1">>, <<NonAscii2>>,
      <<"/", "2", "0", "2", "3">>, <<"%", "Y">> }

\* C9: trailing input is ignored: when parse_datetime(input, pattern) is
\* Ok(d), parse_datetime(input ++ s, pattern) is Ok(d) for every suffix s.
C9_TrailingInputIgnored ==
    /\ (mode = "from_str" /\ pc = "done" /\ result.tag = "Ok") =>
           \A s \in Suffixes : parse_datetime(date \o s, format) = result
    /\ (pc = "match" /\ parsed.tag = "Ok") =>
           \A s \in Suffixes : parse_datetime(date \o s, format) = parsed

C9_Witness ==
    /\ mode = "from_str" /\ pc = "done" /\ result.tag = "Ok"
    /\ lexer.rest = <<>> /\ input = <<"!">>
    /\ parse_datetime(date \o <<"x">>, format) = result

\* C10: for every input, non-ASCII ones included, and every pattern without
\* %B, parse_datetime returns a Datetime or an error value: it never aborts
\* while lexing the pattern or slicing the input.
C10_ParseNeverAborts ==
    (mode = "from_str" /\ pc = "done" /\ ~HasSpecifier(format, "B")) =>
        result.tag \in {"Ok", "Err"}

IsLiteralItem(it) == it.tag = "Ok" /\ it.token.kind = "Literal"

\* The items next() has returned as Some(..).
Yielded == SelectSeq(items, LAMBDA it : it.tag # "None")

\* C11: every Literal token the lexer yields has a non-empty pattern without
\* '%', and no two Literal tokens follow each other: a maximal run of
\* non-'%' characters is exactly one Literal ("hello world" yields exactly one
\* Literal, "" yields no token).
C11_LiteralsNonEmptyAndMerged ==
    mode = "lexer" =>
        /\ \A i \in 1..Len(items) :
               IsLiteralItem(items[i]) =>
                   /\ items[i].token.pattern # <<>>
                   /\ \A j \in 1..Len(items[i].token.pattern) :
                          items[i].token.pattern[j] # "%"
                   /\ i > 1 => ~IsLiteralItem(items[i - 1])
        /\ (items # <<>> /\ IsLiteralItem(items[Len(items)])) =>
               (lexer.rest = <<>> \/ Head(lexer.rest) = "%")
        /\ (format = <<"h", "e", "l", "l", "o", " ", "w", "o", "r", "l", "d">> /\ lexer.rest = <<>>) =>
               Yielded = <<[tag |-> "Ok", token |-> Literal(<<"h", "e", "l", "l", "o", " ", "w", "o", "r", "l", "d">>)]>>
        /\ format = <<>> => Yielded = <<>>

C11_Witness ==
    /\ mode = "lexer" /\ format = <<"h", "e", "l", "l", "o", " ", "%", "Y", " ", "w", "o", "r", "l", "d">>
    /\ Len(items) = 4 /\ items[4].tag = "None"
    /\ items[1].token = Literal(<<"h", "e", "l", "l", "o", " ">>)
    /\ items[2].token = Tok("FullYear")
    /\ items[3].token = Literal(<<" ", "w", "o", "r", "l", "d">>)

\* The byte offset in the pattern of the two characters the last call of
\* next() consumed.
LastSpecifierOffset == ByteLen(format) - ByteLen(lexer.rest) - 2

\* C12: an InvalidFormat or InvalidWhitespace error for a '%' at byte offset
\* k of the pattern has a span that starts at k and covers the '%' and the
\* character after it (length 2), wherever the '%' stands in the pattern.
C12_ErrorSpanAtPercent ==
    (/\ mode = "lexer" /\ items # <<>>
     /\ items[Len(items)].tag = "Err"
     /\ items[Len(items)].err.kind \in {"InvalidFormat", "InvalidWhitespace"}) =>
        items[Len(items)].err.at = <<LastSpecifierOffset, 2>>

SomeCount == Cardinality({i \in 1..Len(items) : items[i].tag # "None"})

\* C13: every call of next() that returns an item shortens the remaining
\* pattern by at least one character, so a pattern of n characters yields at
\* most n items; next() returns None exactly when the remaining text is empty;
\* and once it has returned None (also after the UnexpectedEOF of a trailing
\* '%') every later call returns None.
C13_LexerTerminates ==
    /\ [](mode = "lexer" =>
            /\ SomeCount <= Len(format)
            /\ pc = "lexing" => (NextItem.tag = "None" <=> lexer.rest = <<>>)
            /\ \A i \in 1..Len(items) : \A j \in i..Len(items) :
                   items[i].tag = "None" => items[j].tag = "None")
    /\ [][/\ LexerYield => Len(lexer'.rest) < Len(lexer.rest)
          /\ LexerEnd => lexer.rest = <<>> /\ lexer'.rest = <<>>]_vars

C13_Witness ==
    /\ mode = "lexer" /\ format = <<"%">>
    /\ Len(items) = 4
    /\ items[1].tag = "Err" /\ items[1].err.kind = "UnexpectedEOF"
    /\ items[2].tag = "None" /\ items[3].tag = "None" /\ items[4].tag = "None"

\* "%H:%M" and "%H:%M %p", two candidates of COMMON_FORMATS.
FmtHourMinute == <<"%", "H", ":", "%", "M">>

FmtHourMinuteAmPm == <<"%", "H", ":", "%", "M", " ", "%", "p">>

IndexOf(f) == CHOOSE i \in 1..Len(COMMON_FORMATS) : COMMON_FORMATS[i] = f

\* C14: in try_guess's candidate list "%H:%M %p" is shadowed by the earlier
\* "%H:%M": every input that "%H:%M %p" parses is parsed by "%H:%M" too, so
\* try_guess never returns the result of "%H:%M %p", and for "HH:MM PM" with
\* HH in 01..11 it returns hour = HH, with no 12-hour correction.
C14_AmPmCandidateShadowed ==
    /\ IndexOf(FmtHourMinute) < IndexOf(FmtHourMinuteAmPm)
    /\ mode \in {"try_guess", "from_str"} =>
           (parse_datetime(date, FmtHourMinuteAmPm).tag = "Ok" =>
                parse_datetime(date, FmtHourMinute).tag = "Ok")
    /\ (mode = "try_guess" /\ pc = "match" /\ format = FmtHourMinuteAmPm) =>
           parsed.tag # "Ok"
    /\ TryGuessDone =>
           \A h \in 1..11 : \A m \in {30, 59} :
               date = Pad2(h) \o <<":">> \o Pad2(m) \o <<" ", "P", "M">> =>
                   result = SomeDt([year |-> DefaultYear, month |-> 1, day |-> 1,
                                    hour |-> h, minute |-> m, second |-> 0])

C14_Witness ==
    /\ TryGuessDone /\ date = <<"1", "1", ":", "5", "9", " ", "P", "M">>
    /\ format = FmtHourMinute /\ input = <<" ", "P", "M">>
    /\ result.tag = "Some" /\ result.dt.hour = 11 /\ result.dt.minute = 59
    /\ parse_datetime(date, FmtHourMinuteAmPm).tag = "Ok"
    /\ parse_datetime(date, FmtHourMinuteAmPm).dt.hour = 23

====
